---- MODULE Spec2Model ----
(***************************************************************************)
(* Front end of the fairy-story generator: the polling hook                *)
(* (useStoryPolling), the generation hook (useStoryGeneration) that owns   *)
(* it, the HTTP client module (lib/api.ts), the creation page              *)
(* (app/create/page.tsx) and the story viewer (app/story/[id]/page.tsx),   *)
(* with the backend's scene worker as its documentation describes it.      *)
(*                                                                         *)
(* One action is one browser task: an event handler, a timer callback or   *)
(* the continuation of an awaited fetch, together with the React render    *)
(* and the effect cleanup / effect it causes.                              *)
(***************************************************************************)
EXTENDS Integers, FiniteSets, Sequences, Bags, TLC

\* ---------------------------------------------------------------- bounds
MaxStories == 2        \* story ids the backend hands out: 1..MaxStories
TotalScenes == 2       \* scenes of one story (progress.total)
MaxInFlight == 2       \* progress requests awaiting their response
MaxCalls == 1          \* generate calls awaiting their response
MaxTicks == 2          \* timer ticks followed per polling run (Spec only)
MaxLen == 1            \* characters of a text the user types into the wizard
ViewScenes == 3        \* most scenes of a story the viewer is given
MaxTimers == 2         \* autoplay timeouts of the viewer not yet fired
MaxLimit == 3          \* largest limit a caller passes explicitly
MaxStored == 21        \* stories the backend holds for the user
PageScenes == 4        \* most scenes of a story the creation page renders
WorkScenes == 2        \* scenes of a short story the worker is followed for
BatchSize == 2         \* scenes the worker generates concurrently
MaxRetries == 1        \* repeated write attempts for a persisted scene

\* ------------------------------------------------------ program constants
MAX_POLLS == 60
ListDefault == 10      \* listStories(limit = 10)
GetDefault == 20       \* getStories(limit = 20)

None == 0              \* JavaScript null for ids, titles, progress, timers
Null == "null"         \* JavaScript null for strings

Ids == 1..MaxStories

VARIABLES
    gen,          \* useStoryGeneration: storyId, title, isGenerating, error
    polling,      \* useStoryPolling: state (progress, scenes, status, isPolling)
                  \* and refs (intervalRef, isMountedRef, pollCountRef)
    requests,     \* progress requests in flight: message -> how many
    genCalls,     \* generate calls in flight
    backend,      \* the stories the backend has created: id -> status, completed
    alive,        \* the component that owns the hooks is mounted
    terminalSeen, \* history: ids whose terminal progress response was processed
    sent,         \* history: id last polled and requests issued since its start
    api,          \* the last call of the HTTP client module and its outcome
    page,         \* creation wizard: childName, prompt, currentStep, error
    screen,       \* what the polling hook hands the creation page to render:
                  \* progress, scenes (their scene orders, in array order), status
    viewer,       \* story viewer: its state, its audio element and its timers
    listing,      \* the last call of a list operation: what was asked, what
                  \* was sent, what came back
    worker        \* the backend's scene worker and the story it persists

vars == <<gen, polling, requests, genCalls, backend, alive, terminalSeen, sent, api, page, screen, viewer, listing, worker>>

\* the state of the pages, which the hooks and the HTTP client never touch
ui == <<page, screen, viewer, listing, worker>>

\* ------------------------------------------------------- HTTP responses
\* A settled fetch: ok (2xx), json (the body parses), detail (the body's
\* detail field, Null when it has none), statusText, data (the parsed payload).
NoData == [status |-> "none", completed |-> 0, scenes |-> 0]

Http(ok, json, detail, statusText, data) ==
    [ok |-> ok, json |-> json, detail |-> detail, statusText |-> statusText, data |-> data]

\* What an async client function does: return a value or throw a message.
Return(v) == [threw |-> FALSE, message |-> Null, value |-> v]
Throw(msg) == [threw |-> TRUE, message |-> msg, value |-> NoData]

\* error.detail || fallback ('' and undefined are both falsy)
OrElse(detail, fallback) == IF detail = Null \/ detail = "" THEN fallback ELSE detail

\* ---------------------------------------------------- lib/api.ts
\* await response.json() rejects with a SyntaxError when the body is no JSON.
SyntaxError == "SyntaxError: Unexpected token"

generateStory_api(r) ==
    IF ~r.ok
    THEN IF ~r.json THEN Throw(SyntaxError)
         ELSE Throw(OrElse(r.detail, "Failed to generate story"))
    ELSE IF ~r.json THEN Throw(SyntaxError) ELSE Return(r.data)

\* `Failed to fetch progress: ${response.statusText}`
ProgressMessage(statusText) ==
    CASE statusText = "Not Found" -> "Failed to fetch progress: Not Found"
      [] statusText = "Internal Server Error" -> "Failed to fetch progress: Internal Server Error"
      [] OTHER -> "Failed to fetch progress: "

getStoryProgress(r) ==
    IF ~r.ok
    THEN Throw(ProgressMessage(r.statusText))
    ELSE IF ~r.json THEN Throw(SyntaxError) ELSE Return(r.data)

\* getStory raising the body's detail
getStory_usesDetail(r) ==
    IF ~r.ok
    THEN Throw(OrElse(r.detail, "Story not found"))
    ELSE IF ~r.json THEN Throw(SyntaxError) ELSE Return(r.data)

getStory(r) ==
    IF ~r.ok
    THEN Throw("Story not found")
    ELSE IF ~r.json THEN Throw(SyntaxError) ELSE Return(r.data)

listStories(r) ==
    IF ~r.ok
    THEN Throw("Failed to list stories")
    ELSE IF ~r.json THEN Throw(SyntaxError) ELSE Return(r.data)

getStories(r) ==
    IF ~r.ok
    THEN Throw("Failed to fetch stories")
    ELSE IF ~r.json THEN Throw(SyntaxError) ELSE Return(r.data)

Operations == {"generateStory", "getStoryProgress", "getStory", "listStories", "getStories"}

\* storyApi: the operation named op applied to a settled fetch
storyApi(op, r) ==
    CASE op = "generateStory" -> generateStory_api(r)
      [] op = "getStoryProgress" -> getStoryProgress(r)
      [] op = "getStory" -> getStory(r)
      [] op = "listStories" -> listStories(r)
      [] op = "getStories" -> getStories(r)

\* ---------------------------------------------------- network
\* A progress request in flight: the story id its poll closure captured and,
\* once the server has answered it, the progress it reports on its way back.
\* A request that fails (the fetch rejects, or the server answers with an
\* error status) carries no data, so it fails in the step that delivers it.
Pending(id) == [id |-> id, phase |-> "pending", data |-> NoData]
Settled(id, data) == [id |-> id, phase |-> "settled", data |-> data]

Snapshots ==
    {[status |-> st, completed |-> c, scenes |-> c] :
        st \in {"generating", "completed", "failed"}, c \in 1..TotalScenes}

ServerError == Http(FALSE, TRUE, "Database error", "Internal Server Error", NoData)
Ok(data) == Http(TRUE, TRUE, Null, "OK", data)

Messages ==
    {Pending(i) : i \in Ids} \cup {Settled(i, d) : i \in Ids, d \in Snapshots}

\* The network is a bag of messages.
InFlight(net) == BagCardinality(net)
Copies(net, m) == CopiesIn(m, net)
Send(net, m) == net (+) SetToBag({m})
Take(net, m) == net (-) SetToBag({m})

\* ---------------------------------------------------- hooks/useStoryPolling.ts
\* The hook's state and refs are the record p; net is the network.  Each
\* operator returns the pair it leaves behind.
Pair(p, net) == [p |-> p, net |-> net]

stopPolling(p) == [p EXCEPT !.isPolling = FALSE, !.intervalRef = None]

\* poll with the ceiling tested before the poll is counted
poll_countsAfterCheck(p, net, storyId) ==
    IF storyId = None \/ ~p.isMountedRef THEN Pair(p, net)
    ELSE IF p.pollCountRef > MAX_POLLS
         THEN Pair(stopPolling([p EXCEPT !.pollCountRef = @ + 1]), net)
         ELSE Pair([p EXCEPT !.pollCountRef = @ + 1], Send(net, Pending(storyId)))

\* poll, up to its await: storyId is the id the closure captured.
poll(p, net, storyId) ==
    IF storyId = None \/ ~p.isMountedRef THEN Pair(p, net)
    ELSE LET q == [p EXCEPT !.pollCountRef = @ + 1] IN
         IF q.pollCountRef > MAX_POLLS
         THEN Pair(stopPolling(q), net)
         ELSE Pair(q, Send(net, Pending(storyId)))

\* pollSettled that keeps the timer when the status is terminal
pollSettled_noStop(p, r) ==
    IF r.threw THEN p
    ELSE IF ~p.isMountedRef THEN p
    ELSE [p EXCEPT !.progress = r.value.completed, !.scenes = r.value.scenes,
                   !.status = r.value.status]

\* pollSettled whose catch block stops the loop
pollSettled_stopsOnError(p, r) ==
    IF r.threw THEN stopPolling(p)
    ELSE IF ~p.isMountedRef THEN p
    ELSE LET q == [p EXCEPT !.progress = r.value.completed, !.scenes = r.value.scenes,
                            !.status = r.value.status]
         IN  IF r.value.status \in {"completed", "failed"} THEN stopPolling(q) ELSE q

\* pollSettled without the isMountedRef test after the await
pollSettled_noMountGuard(p, r) ==
    IF r.threw THEN p
    ELSE LET q == [p EXCEPT !.progress = r.value.completed, !.scenes = r.value.scenes,
                            !.status = r.value.status]
         IN  IF r.value.status \in {"completed", "failed"} THEN stopPolling(q) ELSE q

\* poll, after its await: r is what getStoryProgress(storyId) came to.
pollSettled(p, r) ==
        IF r.threw THEN p                       \* catch: console.error only
        ELSE IF ~p.isMountedRef THEN p
        ELSE LET q == [p EXCEPT !.progress = r.value.completed,
                                !.scenes = r.value.scenes,
                                !.status = r.value.status]
             IN  IF r.value.status \in {"completed", "failed"}
                 THEN stopPolling(q) ELSE q

\* isPolling is the state value of the render whose effect calls startPolling.
startPolling(p, net, storyId, isPolling) ==
    IF storyId = None \/ isPolling \/ p.intervalRef # None THEN Pair(p, net)
    ELSE LET r == poll([p EXCEPT !.isPolling = TRUE, !.pollCountRef = 0], net, storyId)
         IN  Pair([r.p EXCEPT !.intervalRef = storyId], r.net)

\* useEffect(..., [storyId]): the body, and the cleanup it returns.
effect(p, net, storyId, isPolling) ==
    LET q == [p EXCEPT !.isMountedRef = TRUE] IN
    IF storyId # None THEN startPolling(q, net, storyId, isPolling) ELSE Pair(q, net)

\* cleanup that marks the hook unmounted and leaves the timer running
cleanup_onlyMarks(p) == [p EXCEPT !.isMountedRef = FALSE]

cleanup(p) == stopPolling([p EXCEPT !.isMountedRef = FALSE])

\* The render after storyId went from old to new: React runs the previous
\* effect's cleanup and then the effect, both closures of their own render.
render(p, net, old, new) ==
    IF old = new THEN Pair(p, net)
    ELSE effect(cleanup(p), net, new, p.isPolling)

\* ---------------------------------------------------- useStoryGeneration
TitleOf(id) == id + 100

\* The responses the generate endpoint can settle a call with, id being the
\* story the backend creates when it succeeds.
Created(id) == Ok([storyId |-> id, title |-> TitleOf(id), scenes |-> 1])
NoScenes(id) == Ok([storyId |-> id, title |-> TitleOf(id), scenes |-> 0])
Rejected == Http(FALSE, TRUE, "Child name is required", "Bad Request", NoData)

\* generateStory, up to its await
generateStory(g) == [g EXCEPT !.isGenerating = TRUE, !.error = Null]

\* the try block after the fetch settled with r
generateFetched(r) ==
    IF ~r.ok
    THEN IF ~r.json THEN Throw(SyntaxError)
         ELSE Throw(OrElse(r.detail, "Failed to generate story"))
    ELSE IF ~r.json THEN Throw(SyntaxError)
    ELSE IF r.data.scenes = 0 THEN Throw("Scene 1 not returned from API")
    ELSE Return(r.data)

\* generateSettled whose catch block leaves isGenerating set
generateSettled_keepsFlag(g, out) ==
    IF out.threw
    THEN [g EXCEPT !.error = out.message]
    ELSE [g EXCEPT !.storyId = out.value.storyId, !.title = out.value.title,
                   !.isGenerating = FALSE]

\* generateStory, after its await: out is what the try block came to
generateSettled(g, out) ==
    IF out.threw
    THEN [g EXCEPT !.error = out.message, !.isGenerating = FALSE]
    ELSE [g EXCEPT !.storyId = out.value.storyId, !.title = out.value.title,
                   !.isGenerating = FALSE]

reset(g) == [g EXCEPT !.storyId = None, !.title = None, !.isGenerating = FALSE,
                      !.error = Null]

\* isGenerating as the hook returns it
IsGenerating == gen.isGenerating \/ polling.status = "generating"

\* ---------------------------------------------------- app/create/page.tsx
\* A text field holds a sequence of characters, blanks among them.
Chars == {" ", "a"}
Texts == UNION {[1..n -> Chars] : n \in 0..MaxLen}

\* String.prototype.trim
RECURSIVE trimStart(_)
trimStart(s) == IF s # <<>> /\ Head(s) = " " THEN trimStart(Tail(s)) ELSE s

RECURSIVE trimEnd(_)
trimEnd(s) ==
    IF s # <<>> /\ s[Len(s)] = " " THEN trimEnd(SubSeq(s, 1, Len(s) - 1)) ELSE s

trim(s) == trimEnd(trimStart(s))

\* The wizard's state when it mounts: childName comes from the name query
\* parameter, '' without one.
Form(name) == [childName |-> name, prompt |-> <<>>, currentStep |-> 1, error |-> ""]

PleaseEnter == "Please enter child name and story idea!"

\* handleGenerate that tests the fields without trimming them
handleGenerate_noTrim(pg) ==
    IF pg.childName = <<>> \/ pg.prompt = <<>>
    THEN [page |-> [pg EXCEPT !.error = PleaseEnter], call |-> FALSE]
    ELSE [page |-> [pg EXCEPT !.error = ""], call |-> TRUE]

\* handleGenerate, up to its await: the page it leaves and whether it calls
\* the hook's generateStory.
handleGenerate(pg) ==
    IF trim(pg.childName) = <<>> \/ trim(pg.prompt) = <<>>
    THEN [page |-> [pg EXCEPT !.error = PleaseEnter], call |-> FALSE]
    ELSE [page |-> [pg EXCEPT !.error = ""], call |-> TRUE]

canProceed(pg, step) ==
    CASE step = 1 -> Len(trim(pg.childName)) > 0
      [] step = 2 -> Len(trim(pg.prompt)) > 0
      [] OTHER -> TRUE

\* what the page renders
FormShown == gen.storyId = None
StoryShown == gen.storyId # None
ErrorShown == page.error # "" \/ gen.error # Null
ActionsShown == StoryShown /\ polling.status = "completed"

\* ---------------------------------------------------- the story display
\* The scenes of a progress response are known here by their scene order.
\* The progress block a response carries, Absent when it carries none and
\* before the first response (useState(null)).
Absent == [completed |-> 0, total |-> 0]
Idle == [progress |-> Absent, scenes |-> <<>>, status |-> "idle"]

\* poll's setters: setProgress(data.progress), setScenes(data.scenes || []),
\* setStatus(data.status)
shown(data) == [progress |-> data.progress, scenes |-> data.scenes, status |-> data.status]

\* scenes.map(...): one card per element, in array order, headed by its
\* sceneOrder
Cards(h) == h.scenes

\* The placeholders, by the sceneNumber each is given
Placeholders(h) ==
    IF h.status = "generating" /\ h.progress # Absent /\ Len(h.scenes) < h.progress.total
    THEN [i \in 1..(h.progress.total - Len(h.scenes)) |-> Len(h.scenes) + i]
    ELSE <<>>

\* ---------------------------------------------------- app/story/[id]/page.tsx
\* A story as the viewer uses it: its title and, scene by scene, whether the
\* scene has an audio_url.  NoStory is useState<Story | null>(null).
NoStory == [title |-> None, scenes |-> <<>>]
Stories ==
    {[title |-> TitleOf(1), scenes |-> a] :
        a \in UNION {[1..n -> BOOLEAN] : n \in 1..ViewScenes}}

\* The viewer after its first render and effects: loadStory is awaiting
\* getStory, and the [currentScene] effect found no audio element.
\*   audio     the <audio> element: "none" while it is not rendered
\*   autoplay  the 100 ms timeouts of the [currentScene] effect not yet fired
\*   advance   the scenes the pending timeouts of onEnded will show
\*   fetching  loadStory is awaiting getStory
Loading ==
    [story |-> NoStory, currentScene |-> 0, isPlaying |-> FALSE, loading |-> TRUE,
     audio |-> "none", autoplay |-> 0, advance |-> {}, mounted |-> TRUE,
     fetching |-> TRUE]

Last(v) == Len(v.story.scenes) - 1
HasAudio(v, i) == i + 1 \in DOMAIN v.story.scenes /\ v.story.scenes[i + 1]

\* audioRef.current: the element is rendered for a scene with an audio_url
audioRef(v) == ~v.loading /\ v.story # NoStory /\ HasAudio(v, v.currentScene)

\* loadStory whose catch leaves the loading flag set
loadStory_noFinally(v, out) ==
    LET w == IF out.threw THEN v ELSE [v EXCEPT !.story = out.value, !.loading = FALSE]
    IN  [w EXCEPT !.audio = IF audioRef(w) THEN "paused" ELSE "none", !.fetching = FALSE]

\* loadStory, after its await, and the render that follows: currentScene
\* has not changed, so the [currentScene] effect does not run.
loadStory(v, out) ==
    LET w == IF out.threw THEN [v EXCEPT !.loading = FALSE]
             ELSE [v EXCEPT !.story = out.value, !.loading = FALSE]
    IN  [w EXCEPT !.audio = IF audioRef(w) THEN "paused" ELSE "none", !.fetching = FALSE]

\* useEffect(..., [currentScene]): load() and a timeout that will play
sceneEffect(v) ==
    IF audioRef(v) THEN [v EXCEPT !.audio = "paused", !.autoplay = @ + 1] ELSE v

\* setCurrentScene(i), the render and the effect: the audio element gets the
\* new scene's src, or is removed when the scene has none.
setCurrentScene(v, i) ==
    IF i = v.currentScene THEN v
    ELSE sceneEffect([v EXCEPT !.currentScene = i,
                               !.audio = IF HasAudio(v, i) THEN "paused" ELSE "none"])

nextScene(v) ==
    IF v.story # NoStory /\ v.currentScene < Last(v)
    THEN setCurrentScene(v, v.currentScene + 1) ELSE v

prevScene(v) ==
    IF v.currentScene > 0 THEN setCurrentScene(v, v.currentScene - 1) ELSE v

\* The timeout of the effect: audioRef.current?.play().catch(...) and
\* setIsPlaying(true); allowed tells whether the browser lets it play.
autoplayFires(v, allowed) ==
    LET w == [v EXCEPT !.autoplay = @ - 1] IN
    IF ~audioRef(v) THEN [w EXCEPT !.isPlaying = TRUE]
    ELSE IF allowed \/ v.audio = "playing"
         THEN [w EXCEPT !.audio = "playing", !.isPlaying = TRUE]
         ELSE [w EXCEPT !.isPlaying = FALSE]

\* handlePlayPause; started tells whether play() gets the audio going
handlePlayPause(v, started) ==
    IF ~audioRef(v) THEN v
    ELSE IF v.isPlaying
         THEN [v EXCEPT !.audio = IF @ = "playing" THEN "paused" ELSE @,
                        !.isPlaying = FALSE]
         ELSE IF started \/ v.audio = "playing"
              THEN [v EXCEPT !.audio = "playing", !.isPlaying = TRUE]
              ELSE [v EXCEPT !.isPlaying = TRUE]

\* onEnded that sets its timeout on the last scene as well
onEnded_alwaysAdvances(v) ==
    [v EXCEPT !.audio = "ended", !.isPlaying = FALSE,
              !.advance = @ \cup {v.currentScene + 1}]

\* onEnded that sets no timeout
onEnded_noTimer(v) == [v EXCEPT !.audio = "ended", !.isPlaying = FALSE]

\* onEnded of the audio element
onEnded(v) ==
    [v EXCEPT !.audio = "ended", !.isPlaying = FALSE,
              !.advance = IF v.currentScene < Last(v)
                          THEN @ \cup {v.currentScene + 1} ELSE @]

\* the timeout of onEnded: setCurrentScene(currentScene + 1), to being the
\* scene after the one that ended
advanceFires(v, to) == setCurrentScene([v EXCEPT !.advance = @ \ {to}], to)

\* what the viewer renders
LoadingShown == viewer.loading
NotFoundShown == ~viewer.loading /\ viewer.story = NoStory
SceneShown == ~viewer.loading /\ viewer.story # NoStory

\* ---------------------------------------------------- the list operations
\* The query string of the request URL, as the server parses it: one
\* parameter, its key being the text between '?' and '='.
Query(key, value) == [key |-> key, value |-> value]

\* limit: number = 10 / limit: number = 20
LimitOf(op, arg) ==
    IF arg # None THEN arg
    ELSE IF op = "listStories" THEN ListDefault ELSE GetDefault

\* /api/v1/stories?limit=... (listStories), /api/v1/stories/? limit=...
\* (getStories)
listUrl(op, limit) ==
    IF op = "listStories" THEN Query("limit", limit) ELSE Query(" limit", limit)

NotListed ==
    [op |-> "none", arg |-> None, query |-> Query("limit", None), stored |-> 0,
     out |-> Return(0)]

\* ---------------------------------------------------- the scene worker
\* The requested length fixes the scene count N: one more scene per tier
\* here, WorkScenes for a short story.
Lengths == {"short", "medium", "long"}
SceneCount(length) ==
    CASE length = "short" -> WorkScenes
      [] length = "medium" -> WorkScenes + 1
      [] OTHER -> WorkScenes + 2

\* Image adapter: the illustration's URL, the placeholder's when the service
\* failed after its retries and the fallback is enabled, none when it is not.
generateImage(ok, fallback) ==
    IF ok THEN "real" ELSE IF fallback THEN "placeholder" ELSE "null"

\* Voice adapter: the audio URL, or none when synthesis failed.
generateVoice(ok) == IF ok THEN "url" ELSE "null"

SceneRecord(order, image, audio) == [order |-> order, image |-> image, audio |-> audio]
Orders(scenes) == {scenes[i].order : i \in DOMAIN scenes}

\* append scene record without the (story id, order) key
appendScene_noKey(scenes, rec) == Append(scenes, rec)

\* append scene record: a second write for the same order is ignored
appendScene(scenes, rec) ==
    IF rec.order \in Orders(scenes) THEN scenes ELSE Append(scenes, rec)

\* The worker before any generate request.
\*   fallback  ENABLE_IMAGE_FALLBACK
\*   scenes    the persisted scene records, in the order they were written
\*   batch     the scene orders being generated
\*   cause     the stage whose failure set the status to failed
\*   reported  the progress block of the last progress response
Unstarted(fallback) ==
    [fallback |-> fallback, status |-> "none", length |-> "none", total |-> 0,
     scenes |-> <<>>, batch |-> {}, cause |-> "none", retries |-> 0,
     reported |-> Absent]

\* Generate, steps 1 and 2: the narrative skeleton, the story shell and
\* scene 1 with its image and audio.
generate(w, length, textOk, shellOk, imageOk, audioOk) ==
    IF ~textOk THEN [w EXCEPT !.status = "failed", !.cause = "text"]
    ELSE IF ~shellOk THEN [w EXCEPT !.status = "failed", !.cause = "shell"]
    ELSE [w EXCEPT !.status = "generating", !.length = length,
                   !.total = SceneCount(length),
                   !.scenes = appendScene(<<>>, SceneRecord(1,
                                  generateImage(imageOk, w.fallback),
                                  generateVoice(audioOk)))]

Missing(w) == (1..w.total) \ Orders(w.scenes)

\* the next batch: the lowest BatchSize scene orders not yet persisted
nextBatch(w) == {o \in Missing(w) : Cardinality({m \in Missing(w) : m < o}) < BatchSize}

\* a scene of the batch is done: it is persisted, whatever came of its media
sceneDone(w, o, imageOk, audioOk) ==
    [w EXCEPT !.batch = @ \ {o},
              !.scenes = appendScene(@, SceneRecord(o,
                             generateImage(imageOk, w.fallback),
                             generateVoice(audioOk)))]

\* progress view that counts the scenes only while the story is generating
progressView_whileGenerating(w) ==
    [completed |-> IF w.status = "generating" THEN Len(w.scenes) ELSE 0,
     total |-> w.total]

\* Progress view: recomputed from the persisted story on every query
progressView(w) == [completed |-> Len(w.scenes), total |-> w.total]

\* ---------------------------------------------------- history
Issued(net, net2) == {i \in Ids : Copies(net2, Pending(i)) > Copies(net, Pending(i))}

Count(s, net, net2) ==
    IF Issued(net, net2) = {} THEN s
    ELSE LET i == CHOOSE x \in Issued(net, net2) : TRUE IN
         IF s.id = i THEN [s EXCEPT !.n = @ + 1]
         ELSE [id |-> i, n |-> 1, seen |-> s.seen \cup {i},
               resumed |-> s.resumed \/ i \in s.seen]

\* ---------------------------------------------------- state machine
InitHooks ==
    /\ gen = [storyId |-> None, title |-> None, isGenerating |-> FALSE, error |-> Null]
    /\ polling = [progress |-> None, scenes |-> 0, status |-> "idle", isPolling |-> FALSE,
                  intervalRef |-> None, isMountedRef |-> TRUE, pollCountRef |-> 0]
    /\ requests = EmptyBag
    /\ genCalls = 0
    /\ backend = [i \in Ids |-> [status |-> "none", completed |-> 0]]
    /\ alive = TRUE
    /\ terminalSeen = {}
    /\ sent = [id |-> None, n |-> 0, seen |-> {}, resumed |-> FALSE]
    /\ api = [op |-> "none", http |-> Ok(NoData), out |-> Return(NoData)]

Init ==
    /\ InitHooks
    /\ page = Form(<<>>)
    /\ screen = Idle
    /\ viewer = Loading
    /\ listing = NotListed
    /\ worker = Unstarted(TRUE)

\* The creation page opened with any name parameter.
InitPage ==
    /\ InitHooks
    /\ \E name \in Texts : page = Form(name)
    /\ screen = Idle
    /\ viewer = Loading
    /\ listing = NotListed
    /\ worker = Unstarted(TRUE)

\* The hooks' state after a handler moved the generation hook to g2: the
\* render it causes runs the polling hook's effect when storyId changed.
Commit(g2) ==
    LET r == render(polling, requests, gen.storyId, g2.storyId) IN
    /\ gen' = g2
    /\ polling' = r.p
    /\ requests' = r.net
    /\ sent' = Count(sent, requests, r.net)

\* The page calls generateStory(request).
GenerateStory ==
    /\ alive
    /\ genCalls < MaxCalls
    /\ genCalls' = genCalls + 1
    /\ Commit(generateStory(gen))
    /\ UNCHANGED <<backend, alive, terminalSeen, api, ui>>

\* A generate call settles with response r (an unmounted component's state
\* updates are dropped by React).
Settle(r) ==
    /\ genCalls' = genCalls - 1
    /\ IF alive THEN Commit(generateSettled(gen, generateFetched(r)))
       ELSE UNCHANGED <<gen, polling, requests, sent>>
    /\ UNCHANGED <<alive, terminalSeen, api, ui>>

Unused == {i \in Ids : backend[i].status = "none"}

GenerateSucceeds ==
    /\ genCalls > 0
    /\ Unused # {}
    /\ LET id == CHOOSE i \in Unused : \A j \in Unused : i <= j IN
       /\ backend' = [backend EXCEPT ![id] = [status |-> "generating", completed |-> 1]]
       /\ Settle(Created(id))

\* The first story of the session.
GenerateFirst ==
    /\ Unused = Ids
    /\ GenerateSucceeds

GenerateWithoutScenes ==
    /\ genCalls > 0
    /\ \E i \in Ids : Settle(NoScenes(i))
    /\ UNCHANGED backend

GenerateRejected ==
    /\ genCalls > 0
    /\ Settle(Rejected)
    /\ UNCHANGED backend

\* fetch itself rejects: TypeError "Failed to fetch"
GenerateUnreachable ==
    /\ genCalls > 0
    /\ genCalls' = genCalls - 1
    /\ IF alive THEN Commit(generateSettled(gen, Throw("Failed to fetch")))
       ELSE UNCHANGED <<gen, polling, requests, sent>>
    /\ UNCHANGED <<backend, alive, terminalSeen, api, ui>>

Reset ==
    /\ alive
    /\ Commit(reset(gen))
    /\ UNCHANGED <<genCalls, backend, alive, terminalSeen, api, ui>>

\* The owning view unmounts: the effect's cleanup runs.
Unmount ==
    /\ alive
    /\ alive' = FALSE
    /\ polling' = cleanup(polling)
    /\ UNCHANGED <<gen, requests, genCalls, backend, terminalSeen, sent, api, ui>>

\* The interval timer fires: setInterval(poll, 2000).
Interval ==
    /\ polling.intervalRef # None
    /\ InFlight(requests) < MaxInFlight
    /\ LET r == poll(polling, requests, polling.intervalRef) IN
       /\ polling' = r.p
       /\ requests' = r.net
       /\ sent' = Count(sent, requests, r.net)
    /\ UNCHANGED <<gen, genCalls, backend, alive, terminalSeen, api, ui>>

\* A tick within the horizon Spec follows a polling run for.
Tick ==
    /\ polling.pollCountRef <= MaxTicks
    /\ Interval

\* The continuation of a poll whose request was answered (message m).
PollSettles ==
    \E m \in Messages :
        /\ m.phase = "settled"
        /\ Copies(requests, m) > 0
        /\ requests' = Take(requests, m)
        /\ polling' = pollSettled(polling, getStoryProgress(Ok(m.data)))
        /\ terminalSeen' =
               IF polling.isMountedRef /\ m.data.status \in {"completed", "failed"}
               THEN terminalSeen \cup {m.id} ELSE terminalSeen
        /\ UNCHANGED <<gen, genCalls, backend, alive, sent, api, ui>>

\* The continuation of a poll whose request failed: the server answered with
\* an error status, or fetch rejected (TypeError "Failed to fetch").
PollFails ==
    \E i \in Ids :
        /\ Copies(requests, Pending(i)) > 0
        /\ requests' = Take(requests, Pending(i))
        /\ \E r \in {getStoryProgress(ServerError), Throw("Failed to fetch")} :
               polling' = pollSettled(polling, r)
        /\ UNCHANGED <<gen, genCalls, backend, alive, terminalSeen, sent, api, ui>>

\* ---------------------------------------------------- backend and network
\* The backend's work on a story matters while somebody can still ask about
\* it: the hook holds its id, or a request for it is on its way.
Watched(i) == gen.storyId = i \/ polling.intervalRef = i \/ Copies(requests, Pending(i)) > 0

ProgressOf(i) ==
    [status |-> backend[i].status, completed |-> backend[i].completed,
     scenes |-> backend[i].completed]

Answer(i, data) ==
    /\ Copies(requests, Pending(i)) > 0
    /\ requests' = Send(Take(requests, Pending(i)), Settled(i, data))
    /\ UNCHANGED <<gen, polling, genCalls, backend, alive, terminalSeen, sent, api, ui>>

ServerAnswers == \E i \in Ids : Answer(i, ProgressOf(i))

SceneCompletes ==
    \E i \in Ids :
        /\ Watched(i)
        /\ backend[i].status = "generating"
        /\ backend[i].completed < TotalScenes
        /\ backend' = [backend EXCEPT ![i].completed = @ + 1]
        /\ UNCHANGED <<gen, polling, requests, genCalls, alive, terminalSeen, sent, api, ui>>

StoryCompletes ==
    \E i \in Ids :
        /\ Watched(i)
        /\ backend[i].status = "generating"
        /\ backend[i].completed = TotalScenes
        /\ backend' = [backend EXCEPT ![i].status = "completed"]
        /\ UNCHANGED <<gen, polling, requests, genCalls, alive, terminalSeen, sent, api, ui>>

StoryFails ==
    \E i \in Ids :
        /\ Watched(i)
        /\ backend[i].status = "generating"
        /\ backend' = [backend EXCEPT ![i].status = "failed"]
        /\ UNCHANGED <<gen, polling, requests, genCalls, alive, terminalSeen, sent, api, ui>>

Next ==
    \/ GenerateStory
    \/ GenerateSucceeds
    \/ GenerateWithoutScenes
    \/ GenerateRejected
    \/ GenerateUnreachable
    \/ Reset
    \/ Unmount
    \/ Tick
    \/ PollSettles
    \/ PollFails
    \/ ServerAnswers
    \/ SceneCompletes
    \/ StoryCompletes
    \/ StoryFails

Spec == Init /\ [][Next]_vars

\* One story, polled for as long as the hook polls it.
NextCeiling ==
    \/ GenerateStory
    \/ GenerateFirst
    \/ GenerateWithoutScenes
    \/ GenerateRejected
    \/ GenerateUnreachable
    \/ Reset
    \/ Unmount
    \/ Interval
    \/ PollSettles
    \/ PollFails
    \/ ServerAnswers
    \/ SceneCompletes
    \/ StoryCompletes
    \/ StoryFails

SpecCeiling == Init /\ [][NextCeiling]_vars

\* ---------------------------------------------------- the HTTP client alone
Details == {Null, "", "Database error", "Child name is required"}
StatusTexts == {"OK", "Not Found", "Internal Server Error"}
Payloads == {NoData, [status |-> "generating", completed |-> 1, scenes |-> 1]}

Responses ==
    {Http(ok, json, d, t, data) :
        ok \in BOOLEAN, json \in BOOLEAN, d \in Details, t \in StatusTexts,
        data \in Payloads}

\* A caller awaits operation op and the fetch settles with r.
ApiCall ==
    /\ \E op \in Operations, r \in Responses :
           api' = [op |-> op, http |-> r, out |-> storyApi(op, r)]
    /\ UNCHANGED <<gen, polling, requests, genCalls, backend, alive, terminalSeen, sent, ui>>

SpecApi == Init /\ [][ApiCall]_vars

\* ---------------------------------------------------- the creation page
\* The form is rendered while the hook holds no story id; each step renders
\* its own inputs and buttons.
OnStep(n) == alive /\ FormShown /\ page.currentStep = n

Hooks == <<gen, polling, requests, genCalls, backend, alive, terminalSeen, sent>>

TypeName ==
    /\ OnStep(1)
    /\ \E v \in Texts : page' = [page EXCEPT !.childName = v]
    /\ UNCHANGED <<Hooks, api, screen, viewer, listing, worker>>

TypePrompt ==
    /\ OnStep(2)
    /\ \E v \in Texts : page' = [page EXCEPT !.prompt = v]
    /\ UNCHANGED <<Hooks, api, screen, viewer, listing, worker>>

\* handleQuickIdea: a preset fills the prompt
QuickIdea ==
    /\ OnStep(2)
    /\ page' = [page EXCEPT !.prompt = <<"a">>]
    /\ UNCHANGED <<Hooks, api, screen, viewer, listing, worker>>

\* the step indicator buttons: setCurrentStep(step.num), never disabled
StepIndicator ==
    /\ alive /\ FormShown
    /\ \E n \in 1..3 : page' = [page EXCEPT !.currentStep = n]
    /\ UNCHANGED <<Hooks, api, screen, viewer, listing, worker>>

\* the Next buttons of steps 1 and 2, disabled unless canProceed
NextStep ==
    /\ \E n \in 1..2 :
           /\ OnStep(n)
           /\ canProceed(page, n)
           /\ page' = [page EXCEPT !.currentStep = n + 1]
    /\ UNCHANGED <<Hooks, api, screen, viewer, listing, worker>>

\* the Back buttons of steps 2 and 3
Back ==
    /\ \E n \in 2..3 :
           /\ OnStep(n)
           /\ page' = [page EXCEPT !.currentStep = n - 1]
    /\ UNCHANGED <<Hooks, api, screen, viewer, listing, worker>>

\* The CREATE STORY button of step 3 (disabled while isGenerating) runs
\* handleGenerate.
Submit ==
    /\ OnStep(3)
    /\ ~IsGenerating
    /\ LET h == handleGenerate(page) IN
       /\ page' = h.page
       /\ IF h.call
          THEN /\ genCalls' = genCalls + 1
               /\ Commit(generateStory(gen))
          ELSE UNCHANGED <<gen, polling, requests, genCalls, sent>>
    /\ UNCHANGED <<backend, alive, terminalSeen, api, screen, viewer, listing, worker>>

\* The Create Another button, rendered once the status is completed.
CreateAnother ==
    /\ alive
    /\ ActionsShown
    /\ Commit(reset(gen))
    /\ page' = [childName |-> <<>>, prompt |-> <<>>, currentStep |-> 1, error |-> ""]
    /\ UNCHANGED <<genCalls, backend, alive, terminalSeen, api, screen, viewer, listing, worker>>

NextPage ==
    \/ TypeName
    \/ TypePrompt
    \/ QuickIdea
    \/ StepIndicator
    \/ NextStep
    \/ Back
    \/ Submit
    \/ CreateAnother
    \/ GenerateSucceeds
    \/ GenerateWithoutScenes
    \/ GenerateRejected
    \/ GenerateUnreachable
    \/ Unmount
    \/ Tick
    \/ PollSettles
    \/ PollFails
    \/ ServerAnswers
    \/ SceneCompletes
    \/ StoryCompletes
    \/ StoryFails

SpecPage == InitPage /\ [][NextPage]_vars

\* ---------------------------------------------------- progress responses
\* What the progress endpoint can report of a story of total scenes: the
\* scenes persisted so far, each scene order once, in the order the response
\* lists them; all of them once the story is completed.
Range(f) == {f[i] : i \in DOMAIN f}
Listings(total) ==
    {f \in UNION {[1..n -> 1..total] : n \in 0..total} : Cardinality(Range(f)) = Len(f)}

ProgressViews ==
    {[status |-> st, progress |-> pr, scenes |-> sc] :
        st \in {"generating", "completed", "failed"},
        pr \in {Absent} \cup {[completed |-> c, total |-> t] : c \in 0..PageScenes, t \in 1..PageScenes},
        sc \in Listings(PageScenes)}

Reportable(d) ==
    IF d.progress = Absent THEN d.status # "completed"
    ELSE /\ d.progress.completed = Len(d.scenes)
         /\ Range(d.scenes) \subseteq 1..d.progress.total
         /\ d.status = "completed" => Len(d.scenes) = d.progress.total

\* A poll's response reaches the page.
ProgressShown ==
    /\ \E d \in ProgressViews :
           /\ Reportable(d)
           /\ screen' = shown(d)
    /\ UNCHANGED <<Hooks, api, page, viewer, listing, worker>>

SpecDisplay == Init /\ [][ProgressShown]_vars

\* ---------------------------------------------------- the story viewer
Elsewhere == <<Hooks, api, page, screen, listing, worker>>

\* What GET /stories/{id} can answer: the story, 404, or a body that is no JSON.
StoryResponses ==
    {Ok(st) : st \in Stories}
        \cup {Http(FALSE, TRUE, "Story not found", "Not Found", NoStory),
              Http(TRUE, FALSE, Null, "OK", NoStory)}

\* loadStory's await settles with the server's answer r.
StorySettles(r) ==
    /\ viewer.mounted /\ viewer.fetching
    /\ viewer' = loadStory(viewer, getStory(r))
    /\ UNCHANGED Elsewhere

StoryAnswered == \E r \in StoryResponses : StorySettles(r)

\* fetch itself rejects: TypeError "Failed to fetch"
StoryUnreachable ==
    /\ viewer.mounted /\ viewer.fetching
    /\ viewer' = loadStory(viewer, Throw("Failed to fetch"))
    /\ UNCHANGED Elsewhere

\* The controls are rendered with the scene; a scene change waits while
\* MaxTimers autoplay timeouts are pending.
Controls == viewer.mounted /\ SceneShown
MayChange == viewer.autoplay < MaxTimers

\* the next button, disabled on the last scene
ClickNext ==
    /\ Controls /\ MayChange
    /\ viewer' = IF viewer.currentScene = Last(viewer) THEN viewer ELSE nextScene(viewer)
    /\ UNCHANGED Elsewhere

\* the previous button, disabled on the first scene
ClickPrev ==
    /\ Controls /\ MayChange
    /\ viewer' = IF viewer.currentScene = 0 THEN viewer ELSE prevScene(viewer)
    /\ UNCHANGED Elsewhere

\* a position indicator: setCurrentScene(index)
ClickIndicator ==
    /\ Controls /\ MayChange
    /\ \E i \in 0..Last(viewer) : viewer' = setCurrentScene(viewer, i)
    /\ UNCHANGED Elsewhere

ClickPlayPause ==
    /\ Controls
    /\ \E started \in BOOLEAN : viewer' = handlePlayPause(viewer, started)
    /\ UNCHANGED Elsewhere

AutoplayTimer ==
    /\ viewer.mounted
    /\ viewer.autoplay > 0
    /\ \E allowed \in BOOLEAN : viewer' = autoplayFires(viewer, allowed)
    /\ UNCHANGED Elsewhere

\* The audio plays to its end.
AudioEnds ==
    /\ viewer.mounted
    /\ viewer.audio = "playing"
    /\ viewer' = onEnded(viewer)
    /\ UNCHANGED Elsewhere

\* the timeout that onEnded set to show scene to
AdvanceTo(to) ==
    /\ viewer.mounted /\ MayChange
    /\ to \in viewer.advance
    /\ viewer' = advanceFires(viewer, to)
    /\ UNCHANGED Elsewhere

AdvanceTimer == \E to \in viewer.advance : AdvanceTo(to)

\* router.push('/'): the viewer unmounts
GoHome ==
    /\ viewer.mounted /\ ~viewer.loading
    /\ viewer' = [viewer EXCEPT !.mounted = FALSE]
    /\ UNCHANGED Elsewhere

NextViewer ==
    \/ StoryAnswered
    \/ StoryUnreachable
    \/ ClickNext
    \/ ClickPrev
    \/ ClickIndicator
    \/ ClickPlayPause
    \/ AutoplayTimer
    \/ AudioEnds
    \/ AdvanceTimer
    \/ GoHome

SpecViewer == Init /\ [][NextViewer]_vars

\* The browser fires every timeout it has set.
SpecViewerLive ==
    /\ SpecViewer
    /\ WF_vars(AutoplayTimer)
    /\ \A to \in 1..ViewScenes : SF_vars(AdvanceTo(to))

\* ---------------------------------------------------- stories opened from the list
\* The list page links every story it lists, whatever its status; a failed
\* story has no scenes.
EmptyStory == [title |-> TitleOf(1), scenes |-> <<>>]
Linked == Stories \cup {EmptyStory}

\* const scene = story.scenes[currentScene]
SceneExists(v) == v.currentScene + 1 \in DOMAIN v.story.scenes

\* loadStory's await settles with a linked story; the render reads
\* scene.image_url and throws when there is no such scene, which unmounts
\* the viewer.
StoryOpened ==
    /\ viewer.mounted /\ viewer.fetching
    /\ \E st \in Linked :
           LET w == loadStory(viewer, getStory(Ok(st))) IN
           viewer' = IF SceneExists(w) THEN w ELSE [w EXCEPT !.mounted = FALSE]
    /\ UNCHANGED Elsewhere

NextLinked ==
    \/ StoryOpened
    \/ StoryUnreachable
    \/ ClickNext
    \/ ClickPrev
    \/ ClickIndicator
    \/ ClickPlayPause
    \/ AutoplayTimer
    \/ AudioEnds
    \/ AdvanceTimer
    \/ GoHome

SpecLinked == Init /\ [][NextLinked]_vars

\* ---------------------------------------------------- listing stories
Min(a, b) == IF a <= b THEN a ELSE b

\* The list endpoint: the newest stories of the user, at most as many as the
\* limit parameter says, or as its own default says when the request has no
\* parameter of that name.
ServerDefaults == {ListDefault, GetDefault}
Listed(q, stored, dflt) == Min(stored, IF q.key = "limit" THEN q.value ELSE dflt)

\* A caller awaits listStories or getStories, with a limit or without.
ListCall ==
    /\ \E op \in {"listStories", "getStories"}, arg \in {None} \cup (1..MaxLimit),
          stored \in 0..MaxStored, dflt \in ServerDefaults, up \in BOOLEAN :
           LET q == listUrl(op, LimitOf(op, arg))
               r == IF up THEN Ok(Listed(q, stored, dflt)) ELSE ServerError
           IN  listing' = [op |-> op, arg |-> arg, query |-> q, stored |-> stored,
                           out |-> storyApi(op, r)]
    /\ UNCHANGED <<Hooks, api, page, screen, viewer, worker>>

SpecList == Init /\ [][ListCall]_vars

\* ---------------------------------------------------- the scene worker
Frontend == <<Hooks, api, page, screen, viewer, listing>>

\* Any setting of ENABLE_IMAGE_FALLBACK.
InitWorker ==
    /\ InitHooks
    /\ page = Form(<<>>)
    /\ screen = Idle
    /\ viewer = Loading
    /\ listing = NotListed
    /\ \E fallback \in BOOLEAN : worker = Unstarted(fallback)

\* POST /stories/generate with a valid request
GenerateRequested ==
    /\ worker.status = "none"
    /\ \E length \in Lengths, textOk, shellOk, imageOk, audioOk \in BOOLEAN :
           worker' = generate(worker, length, textOk, shellOk, imageOk, audioOk)
    /\ UNCHANGED Frontend

\* The background job starts its next batch once the previous one is done.
StartBatch ==
    /\ worker.status = "generating"
    /\ worker.batch = {}
    /\ Missing(worker) # {}
    /\ worker' = [worker EXCEPT !.batch = nextBatch(worker)]
    /\ UNCHANGED Frontend

\* The scenes of a batch finish in any order.
SceneDone ==
    /\ worker.status = "generating"
    /\ \E o \in worker.batch, imageOk, audioOk \in BOOLEAN :
           worker' = sceneDone(worker, o, imageOk, audioOk)
    /\ UNCHANGED Frontend

\* A second write attempt for a scene that is already persisted.
RetryWrite ==
    /\ worker.status = "generating"
    /\ worker.retries < MaxRetries
    /\ \E o \in Orders(worker.scenes), imageOk, audioOk \in BOOLEAN :
           worker' = [worker EXCEPT
                         !.retries = @ + 1,
                         !.scenes = appendScene(@, SceneRecord(o,
                                        generateImage(imageOk, worker.fallback),
                                        generateVoice(audioOk)))]
    /\ UNCHANGED Frontend

\* All scenes are persisted: status = completed.
StoryDone ==
    /\ worker.status = "generating"
    /\ worker.batch = {}
    /\ Missing(worker) = {}
    /\ worker' = [worker EXCEPT !.status = "completed"]
    /\ UNCHANGED Frontend

\* GET /stories/{id}/progress for the story
ProgressPolled ==
    /\ worker.status # "none"
    /\ worker' = [worker EXCEPT !.reported = progressView(worker)]
    /\ UNCHANGED Frontend

NextWorker ==
    \/ GenerateRequested
    \/ StartBatch
    \/ SceneDone
    \/ RetryWrite
    \/ StoryDone
    \/ ProgressPolled

SpecWorker == InitWorker /\ [][NextWorker]_vars

\* ==================================================== claims
Terminal == {"completed", "failed"}
NoneIssued == Issued(requests, requests') = {}

\* C1: once the hook has processed a progress response whose status is
\* completed or failed for a story id, the interval timer no longer polls
\* that id and no later step issues a progress request for it.
C1_NoRequestAfterTerminal ==
    /\ [](\A i \in terminalSeen : polling.intervalRef # i)
    /\ [][\A i \in terminalSeen : i \notin Issued(requests, requests')]_vars

C1_Witness ==
    \E i \in terminalSeen :
        /\ alive /\ gen.storyId = i
        /\ polling.status \in Terminal
        /\ polling.pollCountRef <= MaxTicks

\* C2: for one story id, whatever the polls come to, at most MAX_POLLS (60)
\* progress requests are issued, failed ones included, and the poll after
\* the 60th clears the timer.
C2_AtMostMaxPolls ==
    /\ sent.n <= MAX_POLLS
    /\ ~sent.resumed
    /\ polling.pollCountRef > MAX_POLLS =>
           polling.intervalRef = None /\ ~polling.isPolling

C2_Witness ==
    /\ sent.n = MAX_POLLS
    /\ polling.pollCountRef = MAX_POLLS + 1
    /\ polling.intervalRef = None
    /\ polling.status \notin Terminal

\* C3: no request is issued while the story id is absent, and every step
\* that gives the hook a new non-absent story id starts polling it: one
\* immediate request and the interval timer, whether the previous id was
\* absent or another story.
C3_StartsForEveryId ==
    [][/\ gen'.storyId = None => NoneIssued
       /\ (alive /\ gen'.storyId # gen.storyId /\ gen'.storyId # None) =>
              /\ Issued(requests, requests') = {gen'.storyId}
              /\ polling'.intervalRef = gen'.storyId]_vars

\* C4: a poll whose request fails leaves progress, scenes and status as
\* they were and does not stop the loop: the timer and the poll count are
\* untouched.
C4_FailedPollChangesNothing ==
    [][\A i \in Ids :
          (Copies(requests, Pending(i)) > 0 /\ requests' = Take(requests, Pending(i))) =>
              polling' = polling]_vars

C4_Witness ==
    /\ alive
    /\ polling.intervalRef # None
    /\ polling.pollCountRef >= 2
    /\ polling.status = "idle"
    /\ InFlight(requests) = 0

\* C5: after the owning view has unmounted no progress request is issued
\* and no poll response, one in flight at the unmount included, updates the
\* hook's state; the unmount itself clears the timer.
C5_NothingAfterUnmount ==
    /\ [](~alive => polling.intervalRef = None /\ ~polling.isMountedRef)
    /\ [][~alive' => NoneIssued]_vars
    /\ [][~alive => polling' = polling /\ gen' = gen]_vars

C5_Witness ==
    /\ ~alive
    /\ \E m \in Messages :
           /\ m.phase = "settled" /\ m.id = gen.storyId /\ Copies(requests, m) > 0
           /\ m.data.completed # polling.progress

\* C6: isGenerating is true from the invocation of generateStory until the
\* call fails or the polling status stops being generating: it is true
\* while the story is polled and no status has been reported yet, and it
\* is false once the status is terminal and no call is in flight.
C6_GeneratingUntilStatusLeaves ==
    /\ (alive /\ gen.storyId # None /\ polling.intervalRef = gen.storyId
          /\ polling.status = "idle") => IsGenerating
    /\ (alive /\ polling.status \in Terminal /\ genCalls = 0) => ~IsGenerating

\* C7: when a generate call succeeds the hook takes the returned id and
\* title, and the polling hook begins polling that id in the same step.
C7_SuccessStartsPolling ==
    [][(alive /\ genCalls' < genCalls /\ backend' # backend) =>
          \E i \in Ids :
              /\ backend[i].status = "none" /\ backend'[i].status = "generating"
              /\ gen'.storyId = i
              /\ gen'.title = TitleOf(i)
              /\ polling'.intervalRef = i
              /\ i \in Issued(requests, requests')]_vars

\* C8: when a generate call fails (fetch rejects, non-success response, or
\* a response without scene 1) error becomes the failure message, the own
\* generating flag becomes false, story id and title stay, and the polling
\* hook is left alone.
C8_FailureSurfacesError ==
    [][(alive /\ genCalls' < genCalls /\ backend' = backend) =>
          /\ gen'.error \in {"Child name is required", "Failed to fetch",
                             "Scene 1 not returned from API"}
          /\ ~gen'.isGenerating
          /\ gen'.storyId = gen.storyId /\ gen'.title = gen.title
          /\ polling' = polling
          /\ requests' = requests]_vars

C8_Witness ==
    /\ alive
    /\ gen.error = "Scene 1 not returned from API"
    /\ gen.storyId # None
    /\ polling.intervalRef = gen.storyId

\* C9: after reset, in any state, story id, title and error are absent and
\* the polling hook is stopped: the timer is cleared, and no request is
\* issued while the story id stays absent.
C9_ResetStopsPolling ==
    /\ [][Reset =>
            /\ gen'.storyId = None /\ gen'.title = None /\ gen'.error = Null
            /\ polling'.intervalRef = None /\ ~polling'.isPolling
            /\ NoneIssued]_vars
    /\ [](gen.storyId = None => polling.intervalRef = None)
    /\ [][gen.storyId = None /\ gen'.storyId = None => NoneIssued]_vars

C9_Witness ==
    /\ alive
    /\ gen.storyId = None /\ gen.title = None
    /\ \E i \in Ids : backend[i].status = "generating" /\ Copies(requests, Pending(i)) > 0
    /\ polling.pollCountRef >= 2

\* C10 as claimed: every operation, on every non-success response, raises the
\* body's detail when the body carries one and a generic message otherwise,
\* and returns the parsed body on a success response.
Generic(op) ==
    CASE op = "generateStory" -> {"Failed to generate story"}
      [] op = "getStoryProgress" -> {ProgressMessage(t) : t \in StatusTexts}
      [] op = "getStory" -> {"Story not found"}
      [] op = "listStories" -> {"Failed to list stories"}
      [] op = "getStories" -> {"Failed to fetch stories"}

HasDetail(r) == r.json /\ r.detail # Null /\ r.detail # ""

C10_DetailOrGeneric ==
    api.op # "none" =>
        IF api.http.ok
        THEN api.http.json => ~api.out.threw /\ api.out.value = api.http.data
        ELSE /\ api.out.threw
             /\ IF HasDetail(api.http) THEN api.out.message = api.http.detail
                ELSE api.out.message \in Generic(api.op)

\* C10 amended: every operation raises on every non-success response and
\* returns the parsed body on a success response whose body parses.  Only
\* generateStory reads the body: it raises the detail when the body parses
\* and carries a non-empty one, its generic message when the body parses
\* without one, and the parse error when the body does not parse.  The
\* other operations raise their own fixed message (getStoryProgress with the
\* status text appended) whatever the body holds.
C10_OnlyGenerateReadsDetail ==
    api.op # "none" =>
        IF api.http.ok
        THEN IF api.http.json
             THEN ~api.out.threw /\ api.out.value = api.http.data
             ELSE api.out.threw /\ api.out.message = SyntaxError
        ELSE /\ api.out.threw
             /\ IF api.op = "generateStory"
                THEN api.out.message =
                         IF ~api.http.json THEN SyntaxError
                         ELSE IF HasDetail(api.http) THEN api.http.detail
                         ELSE "Failed to generate story"
                ELSE /\ api.out.message \in Generic(api.op)
                     /\ api.op = "getStoryProgress" =>
                            api.out.message = ProgressMessage(api.http.statusText)

C10_Witness ==
    /\ api.op = "getStory"
    /\ ~api.http.ok /\ HasDetail(api.http)
    /\ api.out.threw /\ api.out.message # api.http.detail

\* C11: whatever the form holds and however the user moved between the
\* steps, submitting with a child name or a prompt that is empty or only
\* blanks shows the inline error and calls nothing; a generate call is made
\* only from a form whose name and prompt both hold a non-blank character.
Blank(pg) == trim(pg.childName) = <<>> \/ trim(pg.prompt) = <<>>

C11_BlankSubmitIsRefused ==
    /\ [][Submit /\ Blank(page) =>
            /\ page'.error = PleaseEnter /\ ErrorShown'
            /\ gen' = gen /\ genCalls' = genCalls /\ requests' = requests]_vars
    /\ [][genCalls' > genCalls => ~Blank(page) /\ page'.error = ""]_vars

C11_Witness ==
    /\ alive /\ FormShown
    /\ page.currentStep = 3
    /\ page.childName = <<" ">>
    /\ page.error = PleaseEnter
    /\ genCalls = 0 /\ ~gen.isGenerating

\* C12: the creation page renders the completed scenes in ascending scene
\* order, whatever order the progress response lists them in.
C12_CardsAscend ==
    \A i, j \in 1..Len(Cards(screen)) : i < j => Cards(screen)[i] < Cards(screen)[j]

\* C13: while the status is generating and a progress block is present, the
\* cards and the placeholders together number total, and the placeholders
\* carry exactly the scene orders of 1..total that no card shows.
C13_PlaceholdersAreTheMissing ==
    (screen.status = "generating" /\ screen.progress # Absent) =>
        /\ Len(Cards(screen)) + Len(Placeholders(screen)) = screen.progress.total
        /\ Range(Placeholders(screen)) = (1..screen.progress.total) \ Range(Cards(screen))

\* C14: whenever generation has failed as the wizard sees it (the generate
\* call failed, or the polled status of the story on display is failed),
\* the page shows an error message and offers a next step: the form to
\* retry with, or the action buttons of the story display.
GenerateFailed == FormShown /\ gen.error # Null
StoryFailed == StoryShown /\ polling.status = "failed"

C14_FailureShowsErrorAndNextStep ==
    (alive /\ (GenerateFailed \/ StoryFailed)) =>
        /\ ErrorShown
        /\ FormShown \/ ActionsShown

\* C15: with a loaded story of N >= 1 scenes the current scene index stays
\* within 0..N-1 whatever is clicked and whichever timeouts fire; previous
\* on the first scene and next on the last scene leave it unchanged, and
\* clicking indicator i sets it to i.
C15_IndexInRange ==
    /\ [](SceneShown => viewer.currentScene \in 0..Last(viewer))
    /\ [][ClickPrev /\ viewer.currentScene = 0 => viewer'.currentScene = 0]_vars
    /\ [][ClickNext /\ viewer.currentScene = Last(viewer) =>
              viewer'.currentScene = viewer.currentScene]_vars
    /\ [][\A i \in 0..(ViewScenes - 1) :
              (Controls /\ i <= Last(viewer) /\ MayChange
                 /\ viewer' = setCurrentScene(viewer, i)) => viewer'.currentScene = i]_vars

C15_Witness ==
    /\ viewer.mounted /\ SceneShown
    /\ Len(viewer.story.scenes) = ViewScenes
    /\ viewer.currentScene = Last(viewer)
    /\ viewer.audio = "ended"

\* C16: when the audio of the current scene i ends, the viewer stays on i
\* for the moment; if i is not the last scene a timeout is set that shows
\* scene i+1 when it fires, and it does fire; if i is the last scene no
\* timeout is set.
C16_AdvancesAfterEnd ==
    /\ [][AudioEnds =>
            /\ viewer'.currentScene = viewer.currentScene
            /\ viewer'.advance =
                   IF viewer.currentScene < Last(viewer)
                   THEN viewer.advance \cup {viewer.currentScene + 1}
                   ELSE viewer.advance]_vars
    /\ [][\A to \in 1..ViewScenes : AdvanceTo(to) => viewer'.currentScene = to]_vars
    /\ \A to \in 1..ViewScenes :
           (viewer.mounted /\ to \in viewer.advance)
               ~> (viewer.currentScene = to \/ ~viewer.mounted)

C16_Witness ==
    /\ viewer.mounted /\ SceneShown
    /\ viewer.audio = "ended"
    /\ viewer.currentScene < Last(viewer)
    /\ viewer.advance = {viewer.currentScene + 1}

\* C17: whenever the viewer comes to display a scene that has an audio URL
\* (the first scene once the story has loaded, or a scene reached by a
\* button, an indicator or an auto-advance), it loads that scene's audio and
\* sets out to play it: an autoplay timeout is set in that step.
ComesToShow ==
    /\ viewer'.mounted /\ SceneShown'
    /\ ~SceneShown \/ viewer'.currentScene # viewer.currentScene
    /\ HasAudio(viewer', viewer'.currentScene)

C17_AutoplayOnEveryScene ==
    [][ComesToShow =>
          /\ viewer'.audio = "paused"
          /\ viewer'.autoplay = viewer.autoplay + 1]_vars

\* C18: in every settled state of the scene view (no autoplay timeout
\* pending) isPlaying is true exactly when the current scene's audio is
\* playing; so it is false after a blocked autoplay, after a rejected manual
\* play and while the scene has no audio element.
AtRest == viewer.mounted /\ SceneShown /\ viewer.autoplay = 0

C18_ToggleReflectsAudio ==
    AtRest => (viewer.isPlaying <=> viewer.audio = "playing")

\* C19: when fetching the story fails (an error status, a body that does
\* not parse, or no answer at all) the viewer leaves the loading view for
\* the not-found view, which offers the way home; when it succeeds the
\* viewer shows the story it was given.  The loading view is shown only
\* while the fetch is awaited, and the scene view only with a loaded story.
C19_FailedFetchShowsNotFound ==
    /\ [][\A r \in StoryResponses :
              StorySettles(r) =>
                  IF r.ok /\ r.json
                  THEN SceneShown' /\ viewer'.story = r.data
                  ELSE NotFoundShown']_vars
    /\ [][StoryUnreachable => NotFoundShown' /\ ~LoadingShown']_vars
    /\ [](LoadingShown <=> viewer.fetching)
    /\ [](viewer.mounted /\ NotFoundShown => ENABLED GoHome)
    /\ [](SceneShown => viewer.story \in Stories)

C19_Witness ==
    /\ viewer.mounted
    /\ NotFoundShown
    /\ viewer.audio = "none" /\ viewer.autoplay = 0

\* C20: a list operation that returns, returns no more items than the limit
\* in effect (the caller's limit, or the operation's default, 10 for
\* listStories and 20 for getStories, when the caller passes none), and that
\* limit is what the request carries as its limit parameter.
C20_LimitSentAndHonoured ==
    (listing.op # "none" /\ ~listing.out.threw) =>
        /\ listing.out.value <= LimitOf(listing.op, listing.arg)
        /\ listing.query = Query("limit", LimitOf(listing.op, listing.arg))

\* C21: for a story under generation, successive progress responses report
\* a completed count that never decreases and a total that never changes
\* after the first response.
C21_ProgressNeverDecreases ==
    [][(worker.reported # Absent /\ worker.status # "none") =>
          /\ worker'.reported.completed >= worker.reported.completed
          /\ worker'.reported.total = worker.reported.total]_vars

C21_Witness ==
    /\ worker.status = "completed"
    /\ worker.reported.total = WorkScenes + 2
    /\ worker.reported.completed \in 2..(Len(worker.scenes) - 1)


\* C22: once a story is completed its persisted scene orders are exactly
\* 1..N, N being the scene count of the requested length, with no gap and
\* no duplicate; at no time are two records persisted for one scene order,
\* whatever order the scenes of a batch finish in and however often a write
\* is attempted again.
C22_OrdersContiguous ==
    /\ \A i, j \in DOMAIN worker.scenes :
           i # j => worker.scenes[i].order # worker.scenes[j].order
    /\ worker.status = "completed" =>
           /\ Orders(worker.scenes) = 1..SceneCount(worker.length)
           /\ Len(worker.scenes) = SceneCount(worker.length)

C22_Witness ==
    /\ worker.status = "completed"
    /\ worker.length = "long"
    /\ worker.retries = MaxRetries
    /\ \E i \in DOMAIN worker.scenes :
           i > 1 /\ worker.scenes[i].order < worker.scenes[i - 1].order


\* C23: a failed image or audio generation never sets the status to failed
\* and does not keep the story from completing: the scene is persisted, with
\* a placeholder image where the image failed and no audio URL where the
\* audio failed.  The status becomes failed only in the generate request,
\* when the text stage fails or the story shell cannot be persisted.
Persisted(w) == {w.scenes[i] : i \in DOMAIN w.scenes}

C23_MediaFailureIsNotFatal ==
    /\ [][SceneDone => worker'.status = "generating"
                          /\ Len(worker'.scenes) = Len(worker.scenes) + 1]_vars
    /\ [][(worker'.status = "failed" /\ worker.status # "failed") =>
              worker.status = "none" /\ worker'.cause \in {"text", "shell"}]_vars
    /\ [](\A sc \in Persisted(worker) :
              sc.image \in {"real", "placeholder"} /\ sc.audio \in {"url", "null"})
    /\ [](worker.status = "generating" =>
              ENABLED StartBatch \/ ENABLED SceneDone \/ ENABLED StoryDone)


\* C24: a progress response for a story id that is no longer the hook's
\* current id (the id was reset or replaced while the request was in
\* flight) changes neither progress, scenes nor status and does not stop
\* the polling of the current id.
Delivered(m) ==
    /\ m.phase = "settled"
    /\ Copies(requests, m) > 0
    /\ requests' = Take(requests, m)

C24_StaleResponseIsDropped ==
    [][\A m \in Messages :
          (alive /\ Delivered(m) /\ m.id # gen.storyId) =>
              /\ polling'.progress = polling.progress
              /\ polling'.scenes = polling.scenes
              /\ polling'.status = polling.status
              /\ polling'.intervalRef = polling.intervalRef]_vars


\* C25: while the story id stays the same, the completed count the polling
\* hook exposes never decreases, in whatever order the responses of the
\* overlapping requests arrive.
SameStory == alive /\ gen.storyId # None /\ gen'.storyId = gen.storyId

C25_CompletedNeverDecreases ==
    [][SameStory => polling'.progress >= polling.progress]_vars

\* C26: once the hook's status for a story id is completed or failed it
\* stays so until the story id changes; the response of an earlier poll
\* that arrives later does not set it back to generating.
C26_TerminalStatusStays ==
    [][(SameStory /\ polling.status \in Terminal) =>
          polling'.status = polling.status]_vars


\* C27: after reset the hook exposes the state of no story (status idle, no
\* scenes, no progress); so when a following generate succeeds the page
\* takes the new story id with that state, and it shows the completed
\* status only of a story whose own terminal response it has processed.
NoStoryExposed ==
    polling.status = "idle" /\ polling.scenes = 0 /\ polling.progress = None

C27_ResetExposesNoStory ==
    /\ [](alive /\ gen.storyId = None => NoStoryExposed)
    /\ [][(alive /\ gen'.storyId # None /\ gen'.storyId # gen.storyId) =>
              NoStoryExposed']_vars
    /\ [](alive /\ ActionsShown => gen.storyId \in terminalSeen)


\* C28: whenever the viewer renders scene content, the current scene index
\* refers to a scene of the loaded story, for every story the list page
\* links to, a story without scenes included.
C28_SceneExists ==
    SceneShown => SceneExists(viewer)


\* C29: a pending auto-advance does not override a navigation made during
\* its delay: when the timeout set at the end of scene i's audio fires and
\* the viewer is no longer on scene i, because the user moved to a scene j
\* meanwhile, the viewer stays on scene j.
C29_AdvanceYieldsToNavigation ==
    [][\A to \in 1..ViewScenes :
          (AdvanceTo(to) /\ viewer.currentScene # to - 1) =>
              viewer'.currentScene = viewer.currentScene]_vars


\* C30: after a successful generate call the creation flow leaves the
\* generating state even if no terminal status is ever reported: once the
\* poll ceiling has stopped the polling of the story on display and
\* neither a response nor a generate call is outstanding, isGenerating is
\* false or an error is shown.
CeilingStopped ==
    /\ alive /\ StoryShown
    /\ genCalls = 0
    /\ polling.pollCountRef > MAX_POLLS
    /\ polling.intervalRef = None
    /\ InFlight(requests) = 0

C30_CeilingEndsGenerating ==
    CeilingStopped => ~IsGenerating \/ ErrorShown

====
